---- MODULE Spec2Model ----
(***************************************************************************)
(* A model of src/util.rs: the error and stack bridge between host (Rust)  *)
(* code and the Lua VM.  The Lua stack is a sequence of tagged values, the *)
(* userdata heap a sequence of objects addressed by index, the registry    *)
(* entry under ERROR_METATABLE_REGISTRY_KEY a table identity (0 for nil).  *)
(***************************************************************************)
EXTENDS Integers, Sequences, FiniteSets, TLC

VARIABLES
    stack,   \* the operand stack of the running Lua call frame (index 1 = bottom)
    heap,    \* full userdata objects, addressed by their index
    errMT,   \* registry[ERROR_METATABLE_REGISTRY_KEY]: a table identity, 0 = nil
    ntab,    \* number of tables created so far (the next table is ntab + 1)
    out,     \* what the last completed operation was given and what it produced
    cs,      \* control stack of the nested protected calls and callbacks
    sig,     \* the control transfer in flight: none, a VM error or a host unwind
    obs,     \* what the VM-level code and the host callers have been handed
    co       \* the operand stack of a second thread (a coroutine) of the same VM

vars == <<stack, heap, errMT, ntab, out, cs, sig, obs, co>>

-----------------------------------------------------------------------------
(* Bounds of the model *)

MaxStack == 2
MaxHeap == 2
MaxDelta == 2
MaxUse == 2
MaxCarriers == 1
MaxNest == 4
MaxArgs == 1
MaxResults == 2
MaxReturn == 1

-----------------------------------------------------------------------------
(* VM result codes *)

LUA_OK == 0
LUA_YIELD == 1
LUA_ERRRUN == 2
LUA_ERRSYNTAX == 3
LUA_ERRMEM == 4
LUA_ERRGCMM == 5
LUA_ERRERR == 6
LUA_UNKNOWN == 7
LUA_MULTRET == -1

FailCodes == {LUA_ERRRUN, LUA_ERRSYNTAX, LUA_ERRMEM, LUA_ERRGCMM, LUA_ERRERR, LUA_UNKNOWN}

-----------------------------------------------------------------------------
(* Values, byte strings and structured errors *)

\* A byte string is a sequence of bytes; "NUL" is the zero byte and "BAD" a
\* byte that is not valid UTF-8.
Eof == <<"<", "e", "o", "f", ">">>
Unprintable == <<"<unprintable error>">>
UnprintableLua == <<"<unprintable lua error>">>
TraceText == <<"\nstack traceback:">>

Msgs ==
    { <<"x">>,
      <<"x">> \o Eof,
      Eof \o <<"x">>,
      <<"e", "o", "f", ">">>,
      Eof \o <<"NUL">>,
      <<"x", "BAD">> }

Nil == [t |-> "nil", id |-> 0, s |-> <<>>]
Str(s) == [t |-> "str", id |-> 0, s |-> s]
Num(s) == [t |-> "num", id |-> 0, s |-> s]
Tbl(i) == [t |-> "tbl", id |-> i, s |-> <<>>]
Ud(i) == [t |-> "ud", id |-> i, s |-> <<>>]
Lud == [t |-> "lud", id |-> 0, s |-> <<>>]
Fn(name) == [t |-> "fn", id |-> 0, s |-> <<name>>]

\* A behaviour of SpecNest follows one error or panic, from the closure or VM
\* code that raises it (obs.raised) to the caller that is handed it.

\* A LuaError: its kind and message, and the traces of the CallbackError layers
\* wrapped around it, innermost first (CallbackError(t2, CallbackError(t1, e))
\* is e with traces <<t1, t2>>).
LuaError(kind, msg) == [kind |-> kind, msg |-> msg, traces |-> <<>>]
CallbackError(trace, cause) == [cause EXCEPT !.traces = Append(@, trace)]
NoError == LuaError("none", <<>>)

Errs ==
    { LuaError("StackOverflow", <<>>),
      LuaError("ToLuaConversionError", <<"x">> \o Eof) }

Payloads == {"p1"}
UsedTwice == "internal error: panic error used twice"
NoPayload == "None"

\* The object a full userdata holds: a WrappedError (Error or Panic) or some
\* other host value ("Other"); mt is its metatable, 0 for none.
Carrier(variant, err, payload) ==
    [variant |-> variant, err |-> err, payload |-> payload, mt |-> 0]

-----------------------------------------------------------------------------
(* The VM's stack primitives, on a stack stk *)

lua_gettop(stk) == Len(stk)

lua_absindex(stk, i) == IF i > 0 THEN i ELSE Len(stk) + 1 + i

lua_settop(stk, n) ==
    IF n <= Len(stk) THEN SubSeq(stk, 1, n)
    ELSE stk \o [k \in 1..(n - Len(stk)) |-> Nil]

lua_pop(stk, n) == lua_settop(stk, Len(stk) - n)

lua_pushvalue(stk, i) == Append(stk, stk[lua_absindex(stk, i)])

\* Moves the top element to index i, shifting up the elements above it.
lua_insert(stk, i) ==
    LET a == lua_absindex(stk, i)
        n == Len(stk)
    IN  SubSeq(stk, 1, a - 1) \o <<stk[n]>> \o SubSeq(stk, a, n - 1)

\* Removes the element at index i, shifting down the elements above it.
lua_remove(stk, i) ==
    LET a == lua_absindex(stk, i)
    IN  SubSeq(stk, 1, a - 1) \o SubSeq(stk, a + 1, Len(stk))

lua_copy(stk, from, to) ==
    [stk EXCEPT ![lua_absindex(stk, to)] = stk[lua_absindex(stk, from)]]

\* lua_touserdata: the block address of a full userdata, the pointer of a
\* light one, NULL (FALSE here) for anything else.
lua_touserdata_nonnull(v) == v.t \in {"ud", "lud"}

\* lua_getmetatable: the metatable identity of the value, 0 when it has none.
MetatableOf(hp, v) == IF v.t = "ud" THEN hp[v.id].mt ELSE 0

lua_rawequal(stk, i, j) == stk[lua_absindex(stk, i)] = stk[lua_absindex(stk, j)]

-----------------------------------------------------------------------------
(* Byte strings as the host reads them *)

RECURSIVE FirstNul(_, _)
FirstNul(s, i) ==
    IF i > Len(s) THEN Len(s) + 1
    ELSE IF s[i] = "NUL" THEN i
    ELSE FirstNul(s, i + 1)

\* CStr::from_ptr: the bytes up to, not including, the first zero byte.
CStrFromPtr(s) == SubSeq(s, 1, FirstNul(s, 1) - 1)

\* CStr::to_str succeeds exactly on valid UTF-8.
Utf8Valid(s) == \A i \in 1..Len(s) : s[i] # "BAD"

\* str::ends_with
ends_with(s, suffix) ==
    /\ Len(s) >= Len(suffix)
    /\ SubSeq(s, Len(s) - Len(suffix) + 1, Len(s)) = suffix

\* lua_tolstring gives text for strings and numbers only.
HasText(v) == v.t \in {"str", "num"}

\* luaL_traceback(_, _, msg, 0): the message, when there is one, followed by the
\* rendering of the call stack.
luaL_traceback(msg) == msg \o TraceText

-----------------------------------------------------------------------------
(* The VM state the functions of util.rs act on *)

LuaState(stk, hp, mt, nt) == [stack |-> stk, heap |-> hp, errMT |-> mt, ntab |-> nt]

\* What a host function did: k is "ok" (returned or Ok), "err" (returned Err(err)),
\* "unwind" (a host panic with the payload), "raise" (lua_error, the error value on
\* top of the stack) or "abort" (the process aborted).
Outcome(L, k, err, payload) == [L |-> L, k |-> k, err |-> err, payload |-> payload]

\* get_error_metatable never finding the registry entry.
get_error_metatable_missing(L) == [L EXCEPT !.stack = Append(@, Nil)]

\* Pushes the registry entry under ERROR_METATABLE_REGISTRY_KEY, nil when there
\* is none.
get_error_metatable(L) ==
    [L EXCEPT !.stack = Append(@, IF L.errMT = 0 THEN Nil ELSE Tbl(L.errMT))]

is_wrapped_error(L, index) ==
    LET v == L.stack[lua_absindex(L.stack, index)]
    IN  IF ~lua_touserdata_nonnull(v) THEN [L |-> L, res |-> FALSE]
        ELSE IF MetatableOf(L.heap, v) = 0 THEN [L |-> L, res |-> FALSE]
        ELSE LET L1 == [L EXCEPT !.stack = Append(@, Tbl(MetatableOf(L.heap, v)))]
                 L2 == get_error_metatable(L1)
                 res == lua_rawequal(L2.stack, -1, -2)
             IN  [L |-> [L2 EXCEPT !.stack = lua_pop(@, 2)], res |-> res]

\* is_panic_error without the lua_pop(state, 2) of the arm where the metatable
\* is not the registry's.
is_panic_error_leaves_metatables(L, index) ==
    LET v == L.stack[lua_absindex(L.stack, index)]
    IN  IF ~lua_touserdata_nonnull(v) THEN [L |-> L, res |-> FALSE]
        ELSE IF MetatableOf(L.heap, v) = 0 THEN [L |-> L, res |-> FALSE]
        ELSE LET L1 == [L EXCEPT !.stack = Append(@, Tbl(MetatableOf(L.heap, v)))]
                 L2 == get_error_metatable(L1)
                 L3 == [L2 EXCEPT !.stack = lua_pop(@, 2)]
             IN  IF ~lua_rawequal(L2.stack, -1, -2) THEN [L |-> L2, res |-> FALSE]
                 ELSE [L |-> L3, res |-> L.heap[v.id].variant = "Panic"]

is_panic_error(L, index) ==
    LET v == L.stack[lua_absindex(L.stack, index)]
    IN  IF ~lua_touserdata_nonnull(v) THEN [L |-> L, res |-> FALSE]
        ELSE IF MetatableOf(L.heap, v) = 0 THEN [L |-> L, res |-> FALSE]
        ELSE LET L1 == [L EXCEPT !.stack = Append(@, Tbl(MetatableOf(L.heap, v)))]
                 L2 == get_error_metatable(L1)
                 L3 == [L2 EXCEPT !.stack = lua_pop(@, 2)]
             IN  IF ~lua_rawequal(L2.stack, -1, -2) THEN [L |-> L3, res |-> FALSE]
                 ELSE [L |-> L3, res |-> L.heap[v.id].variant = "Panic"]

\* Pushes the given error or panic as a wrapped error onto the stack, installing
\* the metatable in the registry when it is not there yet.
do_push_wrapped_error(L, err) ==
    LET id == Len(L.heap) + 1
        L1 == [L EXCEPT !.heap = Append(@, err), !.stack = Append(@, Ud(id))]
        L2 == get_error_metatable(L1)
        L3 == IF L2.stack[Len(L2.stack)] = Nil
              THEN LET t == L2.ntab + 1
                       \* lua_pop; lua_newtable; the key; lua_pushvalue(-2)
                       s1 == lua_pushvalue(Append(Append(lua_pop(L2.stack, 1), Tbl(t)), Lud), -2)
                       \* the three lua_settable(state, -3) leave the stack as it was;
                       \* lua_settable(state, LUA_REGISTRYINDEX) pops the key and the table
                   IN  [L2 EXCEPT !.stack = lua_pop(s1, 2), !.ntab = t, !.errMT = s1[Len(s1)].id]
              ELSE L2
        mt == L3.stack[Len(L3.stack)]
        \* lua_setmetatable(state, -2)
    IN  [L3 EXCEPT !.heap[L3.stack[lua_absindex(L3.stack, -2)].id].mt = mt.id,
                   !.stack = lua_pop(@, 1)]

push_wrapped_error(L, err) == do_push_wrapped_error(L, Carrier("Error", err, NoPayload))

\* push_wrapped_panic wrapping the payload as an error.
push_wrapped_panic_as_error(L, panic) ==
    do_push_wrapped_error(L, Carrier("Error", NoError, NoPayload))

push_wrapped_panic(L, panic) == do_push_wrapped_error(L, Carrier("Panic", NoError, panic))

\* pop_wrapped_error with the lua_pop of the Error arm left out.
pop_wrapped_error_nopop(L) ==
    IF ~(lua_gettop(L.stack) > 0)
    THEN Outcome(L, "unwind", NoError, "pop_wrapped_error called with nothing on the stack")
    ELSE LET w == is_wrapped_error(L, -1)
             L1 == w.L
             id == L1.stack[Len(L1.stack)].id
         IN  IF ~w.res
             THEN Outcome(L1, "unwind", NoError,
                          "pop_wrapped_error called when the top of the stack is not a WrappedError")
             ELSE IF L1.heap[id].variant = "Error"
             THEN Outcome(L1, "err", L1.heap[id].err, NoPayload)
             ELSE LET p == IF L1.heap[id].payload # NoPayload
                           THEN L1.heap[id].payload ELSE UsedTwice
                  IN  Outcome([L1 EXCEPT !.heap[id].payload = NoPayload,
                                         !.stack = lua_settop(@, 0)],
                              "unwind", NoError, p)

\* pop_wrapped_error reading the payload without taking it out of the carrier.
pop_wrapped_error_notake(L) ==
    IF ~(lua_gettop(L.stack) > 0)
    THEN Outcome(L, "unwind", NoError, "pop_wrapped_error called with nothing on the stack")
    ELSE LET w == is_wrapped_error(L, -1)
             L1 == w.L
             id == L1.stack[Len(L1.stack)].id
         IN  IF ~w.res
             THEN Outcome(L1, "unwind", NoError,
                          "pop_wrapped_error called when the top of the stack is not a WrappedError")
             ELSE IF L1.heap[id].variant = "Error"
             THEN Outcome([L1 EXCEPT !.stack = lua_pop(@, 1)], "err", L1.heap[id].err, NoPayload)
             ELSE Outcome([L1 EXCEPT !.stack = lua_settop(@, 0)],
                          "unwind", NoError, L1.heap[id].payload)

\* pop_wrapped_error after its two assertions: the userdata on top of L1.stack
\* is a WrappedError.  An Error is popped and returned; the payload of a Panic
\* is taken out of the carrier, the stack is cleared and the panic resumed.
take_wrapped_error(L1, id) ==
    IF L1.heap[id].variant = "Error"
    THEN Outcome([L1 EXCEPT !.stack = lua_pop(@, 1)], "err", L1.heap[id].err, NoPayload)
    ELSE Outcome([L1 EXCEPT !.heap[id].payload = NoPayload, !.stack = lua_settop(@, 0)],
                 "unwind", NoError,
                 IF L1.heap[id].payload # NoPayload THEN L1.heap[id].payload ELSE UsedTwice)

\* pop_wrapped_error given w, the answer of is_wrapped_error(state, -1).
pop_wrapped_error_checked(w) ==
    IF ~w.res
    THEN Outcome(w.L, "unwind", NoError,
                 "pop_wrapped_error called when the top of the stack is not a WrappedError")
    ELSE take_wrapped_error(w.L, w.L.stack[Len(w.L.stack)].id)

\* Pops a WrappedError off the top of the stack: an Error is returned, a Panic
\* clears the stack and resumes the panic.
pop_wrapped_error(L) ==
    IF ~(lua_gettop(L.stack) > 0)
    THEN Outcome(L, "unwind", NoError, "pop_wrapped_error called with nothing on the stack")
    ELSE pop_wrapped_error_checked(is_wrapped_error(L, -1))

\* raw_error with the out-of-memory and finalizer faults returned like a runtime
\* fault.
raw_error_recoverable(L, err, err_string) ==
    IF err = LUA_ERRRUN \/ err = LUA_ERRMEM \/ err = LUA_ERRGCMM
    THEN Outcome(L, "err", LuaError("RuntimeError", err_string), NoPayload)
    ELSE IF err = LUA_ERRSYNTAX
    THEN IF ends_with(err_string, Eof)
         THEN Outcome(L, "err", LuaError("IncompleteStatement", err_string), NoPayload)
         ELSE Outcome(L, "err", LuaError("Syntax", err_string), NoPayload)
    ELSE IF err = LUA_ERRERR
    THEN Outcome(L, "err", LuaError("ErrorError", err_string), NoPayload)
    ELSE Outcome(L, "unwind", NoError, "unrecognized lua error code")

\* The LuaError a raw VM error is read as: the match on the result code, given
\* the state after the pop and the text read from the error value.
raw_error(L, err, err_string) ==
    IF err = LUA_ERRRUN
    THEN Outcome(L, "err", LuaError("RuntimeError", err_string), NoPayload)
    ELSE IF err = LUA_ERRSYNTAX
    THEN IF ends_with(err_string, Eof)
         THEN Outcome(L, "err", LuaError("IncompleteStatement", err_string), NoPayload)
         ELSE Outcome(L, "err", LuaError("Syntax", err_string), NoPayload)
    ELSE IF err = LUA_ERRERR
    THEN Outcome(L, "err", LuaError("ErrorError", err_string), NoPayload)
    ELSE IF err = LUA_ERRMEM \/ err = LUA_ERRGCMM
    THEN Outcome(L, "abort", NoError, NoPayload)
    ELSE Outcome(L, "unwind", NoError, "unrecognized lua error code")

\* handle_failure without the lua_pop of the raw error value.
handle_failure_keeps_error(w, err) ==
    LET top == w.L.stack[Len(w.L.stack)]
        bytes == CStrFromPtr(top.s)
    IN  IF w.res THEN pop_wrapped_error(w.L)
        ELSE IF HasText(top) /\ ~Utf8Valid(bytes)
        THEN Outcome(w.L, "unwind", NoError, "Utf8Error")
        ELSE raw_error(w.L, err, IF HasText(top) THEN bytes ELSE Unprintable)

\* handle_error on a failure code, given w, the answer of
\* is_wrapped_error(state, -1): a carrier is popped, any other value is read
\* as text, popped and classified by the code.
handle_failure(w, err) ==
    LET top == w.L.stack[Len(w.L.stack)]
        bytes == CStrFromPtr(top.s)
    IN  IF w.res THEN pop_wrapped_error(w.L)
        ELSE IF HasText(top) /\ ~Utf8Valid(bytes)
        THEN Outcome(w.L, "unwind", NoError, "Utf8Error")
        ELSE raw_error([w.L EXCEPT !.stack = lua_pop(@, 1)], err,
                       IF HasText(top) THEN bytes ELSE Unprintable)

\* Turns a VM result code, and the error value on top of the stack, into a
\* LuaResult.
handle_error(L, err) ==
    IF err = LUA_OK \/ err = LUA_YIELD THEN Outcome(L, "ok", NoError, NoPayload)
    ELSE handle_failure(is_wrapped_error(L, -1), err)

\* stack_guard accepting, on success, any depth not below the expected one.
stack_guard_atleast(stk, change, opStack, opRes) ==
    LET expected == lua_gettop(stk) + change
        top == lua_gettop(opStack)
    IN  IF ~(expected >= 0)
        THEN [stack |-> stk, k |-> "unwind", err |-> NoError,
              payload |-> "lua stack error, too many values would be popped"]
        ELSE IF ~(top >= expected)
             THEN [stack |-> opStack, k |-> "unwind", err |-> NoError,
                   payload |-> "lua stack error, too many values popped"]
             ELSE IF opRes.k = "ok"
             THEN [stack |-> opStack, k |-> "ok", err |-> NoError, payload |-> NoPayload]
             ELSE [stack |-> IF top > expected THEN lua_settop(opStack, expected) ELSE opStack,
                   k |-> "err", err |-> opRes.err, payload |-> NoPayload]

\* stack_guard without the lua_settop of the failure arm.
stack_guard_noshrink(stk, change, opStack, opRes) ==
    LET expected == lua_gettop(stk) + change
        top == lua_gettop(opStack)
    IN  IF ~(expected >= 0)
        THEN [stack |-> stk, k |-> "unwind", err |-> NoError,
              payload |-> "lua stack error, too many values would be popped"]
        ELSE IF opRes.k = "ok"
        THEN IF lua_gettop(opStack) = expected
             THEN [stack |-> opStack, k |-> "ok", err |-> NoError, payload |-> NoPayload]
             ELSE [stack |-> opStack, k |-> "unwind", err |-> NoError,
                   payload |-> "lua stack error, expected stack to be"]
        ELSE IF ~(top >= expected)
             THEN [stack |-> opStack, k |-> "unwind", err |-> NoError,
                   payload |-> "lua stack error, too many values popped"]
             ELSE [stack |-> opStack, k |-> "err", err |-> opRes.err, payload |-> NoPayload]

\* Runs an operation and checks the stack depth afterwards.  The operation is
\* given by what it leaves: the stack opStack and the result opRes.
stack_guard(stk, change, opStack, opRes) ==
    LET expected == lua_gettop(stk) + change
        top == lua_gettop(opStack)
    IN  IF ~(expected >= 0)
        THEN [stack |-> stk, k |-> "unwind", err |-> NoError,
              payload |-> "lua stack error, too many values would be popped"]
        ELSE IF opRes.k = "ok"
        THEN IF lua_gettop(opStack) = expected
             THEN [stack |-> opStack, k |-> "ok", err |-> NoError, payload |-> NoPayload]
             ELSE [stack |-> opStack, k |-> "unwind", err |-> NoError,
                   payload |-> "lua stack error, expected stack to be"]
        ELSE IF ~(top >= expected)
             THEN [stack |-> opStack, k |-> "unwind", err |-> NoError,
                   payload |-> "lua stack error, too many values popped"]
             ELSE [stack |-> IF top > expected THEN lua_settop(opStack, expected) ELSE opStack,
                   k |-> "err", err |-> opRes.err, payload |-> NoPayload]

-----------------------------------------------------------------------------
(* State shared by the specifications *)

CurL == LuaState(stack, heap, errMT, ntab)

SetL(L) ==
    /\ stack' = L.stack
    /\ heap' = L.heap
    /\ errMT' = L.errMT
    /\ ntab' = L.ntab

NoSig == [k |-> "none", payload |-> NoPayload]
NoOut == [fn |-> "none", k |-> "ok"]
NoObs == [orig |-> <<>>, used |-> <<>>, panic |-> NoPayload, raised |-> FALSE,
          handlerSaw |-> FALSE, swallowed |-> FALSE, viaShim |-> FALSE]

\* The process is gone once it has aborted.
Alive == out.k # "abort"

InitBase ==
    /\ stack = <<>>
    /\ heap = <<>>
    /\ errMT = 0
    /\ ntab = 0
    /\ out = NoOut
    /\ cs = <<>>
    /\ sig = NoSig
    /\ obs = NoObs
    /\ co = <<>>

-----------------------------------------------------------------------------
(* SpecGuard: host code pushing values and running operations under stack_guard *)

OpResults == {[k |-> "ok", err |-> NoError]} \cup {[k |-> "err", err |-> e] : e \in Errs}

\* The stack an operation leaves when it pushes d values (pops -d when d < 0).
OpEffect(stk, d) ==
    IF d < 0 THEN lua_settop(stk, Len(stk) + d)
    ELSE stk \o [k \in 1..d |-> Str(<<"x">>)]

GuardPush ==
    /\ Len(stack) < MaxStack
    /\ stack' = Append(stack, Nil)
    /\ out' = NoOut
    /\ UNCHANGED <<heap, errMT, ntab, cs, sig, obs>>
    /\ UNCHANGED co

StackGuardCall ==
    \E change \in (0 - MaxDelta)..MaxDelta, d \in (0 - MaxDelta)..MaxDelta, r \in OpResults :
        /\ Len(stack) + d >= 0
        /\ Len(stack) + d <= MaxStack
        /\ LET g == stack_guard(stack, change, OpEffect(stack, d), r)
           IN  /\ stack' = g.stack
               /\ out' = [fn |-> "stack_guard", k |-> g.k, err |-> g.err,
                          before |-> Len(stack), change |-> change,
                          opTop |-> Len(OpEffect(stack, d)), opRes |-> r]
        /\ UNCHANGED <<heap, errMT, ntab, cs, sig, obs>>
        /\ UNCHANGED co

NextGuard == GuardPush \/ StackGuardCall

SpecGuard == InitBase /\ [][NextGuard]_vars

-----------------------------------------------------------------------------
(* SpecErr: error values pushed by the VM and by the host, and classified by    *)
(* handle_error and pop_wrapped_error                                          *)

RawValues == {Nil, Num(<<"4", "2">>), Lud} \cup {Str(m) : m \in Msgs}

\* What obs records of a newly allocated userdata: its original payload, and
\* that nothing was resumed from it yet.
ObsAlloc(o, payload) == [o EXCEPT !.orig = Append(@, payload), !.used = Append(@, <<>>)]

\* What obs records of a consumption of the carrier id that resumed payload p.
ObsUse(o, id, p) == [o EXCEPT !.used[id] = Append(@, p)]

\* The previous operation, as the next one's record remembers it.
Prev == IF out.fn = "push_wrapped_error"
        THEN [fn |-> out.fn, err |-> out.err, before |-> out.before]
        ELSE [fn |-> out.fn, err |-> NoError, before |-> 0]

TopIsCarrier(L) == Len(L.stack) > 0 /\ is_wrapped_error(L, -1).res
TopIsPanic(L) == Len(L.stack) > 0 /\ is_panic_error(L, -1).res

\* The VM leaves a raw error value on top of the stack (SpecClassify).
VmRaise ==
    /\ Alive
    /\ Len(stack) < MaxStack
    /\ \E v \in RawValues : stack' = Append(stack, v)
    /\ out' = NoOut
    /\ UNCHANGED <<heap, errMT, ntab, cs, sig, obs>>
    /\ UNCHANGED co


\* Some other host value lives in a userdata, with a metatable of its own or
\* none.
VmNewUserdata ==
    /\ Alive
    /\ Len(stack) < MaxStack
    /\ Len(heap) < MaxHeap
    /\ \E withMt \in BOOLEAN :
        /\ heap' = Append(heap, [Carrier("Other", NoError, NoPayload)
                                    EXCEPT !.mt = IF withMt THEN ntab + 1 ELSE 0])
        /\ ntab' = IF withMt THEN ntab + 1 ELSE ntab
    /\ stack' = Append(stack, Ud(Len(heap) + 1))
    /\ obs' = ObsAlloc(obs, NoPayload)
    /\ out' = NoOut
    /\ UNCHANGED <<errMT, cs, sig>>
    /\ UNCHANGED co

\* The VM pushes a reference it still holds to a userdata.
VmPushRef ==
    /\ Alive
    /\ Len(stack) < MaxStack
    /\ \E id \in 1..Len(heap) : stack' = Append(stack, Ud(id))
    /\ out' = NoOut
    /\ UNCHANGED <<heap, errMT, ntab, cs, sig, obs>>
    /\ UNCHANGED co

PushWrappedError ==
    /\ Alive
    /\ Len(stack) < MaxStack
    /\ Len(heap) < MaxHeap
    /\ \E e \in Errs :
        /\ SetL(push_wrapped_error(CurL, e))
        /\ out' = [fn |-> "push_wrapped_error", k |-> "ok", err |-> e, before |-> Len(stack)]
    /\ obs' = ObsAlloc(obs, NoPayload)
    /\ UNCHANGED <<cs, sig>>
    /\ UNCHANGED co

PushWrappedPanic ==
    /\ Alive
    /\ Len(stack) < MaxStack
    /\ Len(heap) < MaxHeap
    /\ \E p \in Payloads :
        /\ SetL(push_wrapped_panic(CurL, p))
        /\ out' = [fn |-> "push_wrapped_panic", k |-> "ok", payload |-> p, before |-> Len(stack)]
        /\ obs' = ObsAlloc(obs, p)
    /\ UNCHANGED <<cs, sig>>
    /\ UNCHANGED co

\* The record of a classification: what it was given and what it produced.
Classified(fn, code, r) ==
    [fn |-> fn, k |-> r.k, err |-> r.err, payload |-> r.payload, code |-> code,
     before |-> Len(stack),
     top |-> IF Len(stack) > 0 THEN stack[Len(stack)] ELSE Nil,
     topWrapped |-> TopIsCarrier(CurL),
     topPanic |-> TopIsPanic(CurL),
     prev |-> Prev]

ObsClassified(r) ==
    IF TopIsPanic(CurL) /\ r.k = "unwind"
    THEN ObsUse(obs, stack[Len(stack)].id, r.payload)
    ELSE obs

\* A carrier is consumed at most MaxUse times.
UseBounded ==
    TopIsPanic(CurL) => Len(obs.used[stack[Len(stack)].id]) < MaxUse

HandleError ==
    /\ Alive
    /\ UseBounded
    /\ \E code \in {LUA_OK, LUA_YIELD} \cup FailCodes :
        /\ code \in FailCodes => Len(stack) > 0
        /\ LET r == handle_error(CurL, code)
           IN  /\ SetL(r.L)
               /\ out' = Classified("handle_error", code, r)
               /\ obs' = ObsClassified(r)
    /\ UNCHANGED <<cs, sig>>
    /\ UNCHANGED co

PopWrappedError ==
    /\ Alive
    /\ UseBounded
    /\ LET r == pop_wrapped_error(CurL)
       IN  /\ SetL(r.L)
           /\ out' = Classified("pop_wrapped_error", LUA_ERRRUN, r)
           /\ obs' = ObsClassified(r)
    /\ UNCHANGED <<cs, sig>>
    /\ UNCHANGED co

NextErr ==
    \/ VmNewUserdata
    \/ VmPushRef
    \/ PushWrappedError
    \/ PushWrappedPanic
    \/ HandleError
    \/ PopWrappedError

SpecErr == InitBase /\ [][NextErr]_vars

-----------------------------------------------------------------------------
(* SpecQuery: is_wrapped_error and is_panic_error asked of any stack slot *)

\* The indices of the stack's slots, counted from the bottom and from the top.
StackIndices == (1..Len(stack)) \cup {0 - i : i \in 1..Len(stack)}

IsWrappedError ==
    /\ Alive
    /\ \E index \in StackIndices :
        \E w \in {is_wrapped_error(CurL, index)} :
            /\ SetL(w.L)
            /\ out' = [fn |-> "is_wrapped_error", k |-> "ok", index |-> index, res |-> w.res]
    /\ UNCHANGED <<cs, sig, obs, co>>

IsPanicError ==
    /\ Alive
    /\ \E index \in StackIndices :
        \E w \in {is_panic_error(CurL, index)} :
            /\ SetL(w.L)
            /\ out' = [fn |-> "is_panic_error", k |-> "ok", index |-> index, res |-> w.res]
    /\ UNCHANGED <<cs, sig, obs, co>>

NextQuery ==
    \/ VmRaise
    \/ VmNewUserdata
    \/ VmPushRef
    \/ PushWrappedError
    \/ PushWrappedPanic
    \/ IsWrappedError
    \/ IsPanicError

SpecQuery == InitBase /\ [][NextQuery]_vars

-----------------------------------------------------------------------------
(* SpecClassify: handle_error on whatever the VM raised *)

\* The host raises one structured error or panic through the VM.
RaiseCarrier ==
    /\ Len(heap) < MaxCarriers
    /\ (PushWrappedError \/ PushWrappedPanic)

NextClassify == VmRaise \/ RaiseCarrier \/ HandleError

SpecClassify == InitBase /\ [][NextClassify]_vars

-----------------------------------------------------------------------------
(* Protected calls: cpcall, pcall_with_traceback and the VM's lua_pcall *)

\* cpcall, before the protected call: the entry point goes below the nargs
\* arguments, the pointer to the closure on top.
cpcall_setup(stk, nargs) ==
    Append(lua_insert(Append(stk, Fn("call_impl")), 0 - (nargs + 1)), Lud)

\* pcall_with_traceback, before lua_pcall: the slot the message handler goes to.
msgh_position(stk, nargs) == lua_gettop(stk) - nargs

pcall_setup(stk, nargs) ==
    lua_insert(Append(stk, Fn("message_handler")), msgh_position(stk, nargs))

\* lua_pcall(state, nargs, nresults, msgh) calls the value below the nargs
\* arguments, in a frame of its own that holds the arguments.
PcallFn(stk, nargs) == stk[Len(stk) - nargs]
PcallArgs(stk, nargs) == SubSeq(stk, Len(stk) - nargs + 1, Len(stk))
PcallSaved(stk, nargs) == SubSeq(stk, 1, Len(stk) - nargs - 1)

\* The VM gives the caller nresults of the callee's results: the first ones,
\* padded with nil; all of them with LUA_MULTRET.
AdjustResults(res, nresults) ==
    IF nresults = LUA_MULTRET THEN res ELSE lua_settop(res, nresults)

\* The message handler on a structured error, popped: the traceback is pushed
\* and read, and the error goes back wrapped in a CallbackError with it.
push_traced_error(popped) ==
    LET L1 == [popped.L EXCEPT !.stack = Append(@, Str(luaL_traceback(<<>>)))]
        traceback == CStrFromPtr(L1.stack[Len(L1.stack)].s)
    IN  push_wrapped_error(L1, CallbackError(traceback, popped.err))

\* The message handler without the test for a panic: every carrier is popped
\* and wrapped again with a traceback.
message_handler_wraps_panics(L) ==
    IF is_wrapped_error(L, 1).res
    THEN push_traced_error(pop_wrapped_error(L))
    ELSE IF HasText(L.stack[1])
         THEN [L EXCEPT !.stack = Append(@, Str(luaL_traceback(CStrFromPtr(L.stack[1].s))))]
         ELSE [L EXCEPT !.stack = Append(@, Str(luaL_traceback(UnprintableLua)))]

\* The message handler of pcall_with_traceback, in its own frame, whose stack
\* holds the error value alone; its result is the value left on top.
message_handler(L) ==
    IF is_wrapped_error(L, 1).res
    THEN IF ~is_panic_error(L, 1).res
         THEN push_traced_error(pop_wrapped_error(L))
         ELSE L
    ELSE IF HasText(L.stack[1])
         THEN [L EXCEPT !.stack = Append(@, Str(luaL_traceback(CStrFromPtr(L.stack[1].s))))]
         ELSE [L EXCEPT !.stack = Append(@, Str(luaL_traceback(UnprintableLua)))]

\* pcall_with_traceback without the lua_remove of the message handler.
pcall_returned_keeps_handler(L, saved, nresults, pos) ==
    [L EXCEPT !.stack = saved \o AdjustResults(L.stack, nresults)]

\* pcall_with_traceback when the callee returned its results: the state of the
\* caller after lua_pcall and lua_remove(state, msgh_position).
pcall_returned(L, saved, nresults, pos) ==
    [L EXCEPT !.stack = lua_remove(saved \o AdjustResults(L.stack, nresults), pos)]

\* lua_pcall failing, H the state the message handler left: its result takes the
\* place of the called function, then lua_remove(state, msgh_position).
pcall_handled(H, saved, pos) ==
    [H EXCEPT !.stack = lua_remove(Append(saved, H.stack[Len(H.stack)]), pos)]

\* pcall_with_traceback when an error was raised in the callee, the error value
\* on top of L.stack: the message handler runs on it, lua_pcall leaves its
\* result in the place of the called function, lua_remove takes the handler out.
pcall_failed(L, saved, pos) ==
    pcall_handled(message_handler([L EXCEPT !.stack = <<L.stack[Len(L.stack)]>>]), saved, pos)

\* safe_pcall without the test for a panic: every caught error is returned.
safe_pcall_returns_all(L, status) == [k |-> "ok", n |-> lua_gettop(L.stack)]

\* safe_pcall after its lua_pcall(state, lua_gettop(state) - 1, LUA_MULTRET, 0)
\* returned status: it raises the value on top again (k = "raise") or returns
\* n values to the VM.
safe_pcall(L, status) ==
    IF status # LUA_OK /\ is_panic_error(L, -1).res
    THEN [k |-> "raise", n |-> 0]
    ELSE [k |-> "ok", n |-> lua_gettop(L.stack)]

\* safe_xpcall before its lua_pcall: the handler wrapper, closed over the
\* user's handler, goes to slot 1, the function is copied to slot 2.
safe_xpcall_setup(stk) ==
    LET s1 == lua_pushvalue(stk, 2)
        s2 == Append(lua_pop(s1, 1), Fn("xpcall_msgh"))
        s3 == lua_copy(s2, 1, 2)
    IN  lua_insert(s3, 1)

\* The handler wrapper of safe_xpcall on the error value v: a panic carrier is
\* passed on; otherwise the user's handler is called and its results (hres) are
\* the wrapper's.  The VM takes one result of a message handler.
xpcall_msgh(L, hres) ==
    IF is_panic_error(L, -1).res
    THEN [called |-> FALSE, v |-> L.stack[Len(L.stack)]]
    ELSE [called |-> TRUE, v |-> lua_settop(hres, 1)[1]]

\* safe_xpcall without the test for a panic: every caught error is returned.
safe_xpcall_returns_all(L, res) == [k |-> "ok", n |-> res]

\* safe_xpcall after its lua_pcall returned res.
safe_xpcall(L, res) ==
    IF res # LUA_OK /\ is_panic_error(L, -1).res
    THEN [k |-> "raise", n |-> 0]
    ELSE [k |-> "ok", n |-> res]

\* The values a C function that returns n hands to the VM: the top n of its
\* frame.
ReturnedValues(stk, n) == SubSeq(stk, Len(stk) - n + 1, Len(stk))

-----------------------------------------------------------------------------
(* SpecNest: nested protected calls and callbacks.  cs holds one frame per     *)
(* call in progress: EG an error_guard (its closure runs under callback_error  *)
(* inside call_impl), PT a VM function called by pcall_with_traceback followed *)
(* by handle_error, CB a host callback running under callback_error, SP and SX *)
(* a VM function called through safe_pcall and safe_xpcall.                    *)

Frame(kind, saved, outer, nargs, nresults, msgh, before) ==
    [kind |-> kind, saved |-> saved, outer |-> outer, nargs |-> nargs,
     nresults |-> nresults, msgh |-> msgh, before |-> before]

Top == cs[Len(cs)]

\* Who runs: host code at the outermost level and inside EG and CB frames, VM
\* code inside the others.
HostRuns == IF cs = <<>> THEN TRUE ELSE Top.kind \in {"EG", "CB"}
LuaRuns == IF cs = <<>> THEN FALSE ELSE Top.kind \in {"PT", "SP", "SX"}

Quiet == Alive /\ sig.k = "none"

IsPanicCarrier(hp, v) == v.t = "ud" /\ hp[v.id].variant = "Panic"

\* The host pushes a value on the stack of the running frame.
HostPush ==
    /\ Quiet /\ HostRuns
    /\ Len(stack) < MaxStack
    /\ \E v \in {Str(<<"x">>), Num(<<"4", "2">>)} : stack' = Append(stack, v)
    /\ out' = NoOut
    /\ UNCHANGED <<heap, errMT, ntab, cs, sig, obs>>
    /\ UNCHANGED co

\* error_guard up to the start of the closure: cpcall and pcall_with_traceback
\* set the stack up, lua_pcall enters call_impl, which pops the closure pointer.
ErrorGuardCall(depth, NArgs, NResults) ==
    /\ Quiet /\ HostRuns
    /\ Len(cs) < depth
    /\ \E nargs \in NArgs, nresults \in NResults :
        /\ Len(stack) >= nargs
        /\ Len(stack) - nargs + nresults <= MaxStack
        /\ LET s == pcall_setup(cpcall_setup(stack, nargs), nargs + 1)
               pos == msgh_position(cpcall_setup(stack, nargs), nargs + 1)
               fr == Frame("EG", PcallSaved(s, nargs + 1), <<>>, nargs, nresults, pos, stack)
           IN  IF PcallFn(s, nargs + 1) = Fn("call_impl")
               THEN /\ cs' = Append(cs, fr)
                    /\ stack' = lua_pop(PcallArgs(s, nargs + 1), 1)
                    /\ out' = NoOut
                    /\ UNCHANGED <<heap, errMT, ntab>>
               ELSE \* the VM cannot call what sits in the function slot
                    \E r \in {handle_error(
                                 pcall_failed([CurL EXCEPT !.stack = <<Str(<<"attempt to call">>)>>],
                                              PcallSaved(s, nargs + 1), pos),
                                 LUA_ERRRUN)} :
                        /\ SetL(r.L)
                        /\ cs' = cs
                        /\ out' = [fn |-> "error_guard", k |-> r.k, err |-> r.err, closure |-> "none",
                                   nargs |-> nargs, nresults |-> nresults, before |-> stack]
    /\ obs' = obs
    /\ UNCHANGED sig
    /\ UNCHANGED co

\* The host calls a VM function: it pushes the function and its arguments, then
\* pcall_with_traceback enters it.
CallLuaFunction ==
    /\ Quiet /\ HostRuns
    /\ Len(cs) < MaxNest
    /\ \E nargs \in {0}, nresults \in {LUA_MULTRET} :
        LET s0 == Append(stack, Fn("lua")) \o [i \in 1..nargs |-> Nil]
            s == pcall_setup(s0, nargs)
            pos == msgh_position(s0, nargs)
        IN  /\ PcallFn(s, nargs) = Fn("lua")
            /\ cs' = Append(cs, Frame("PT", PcallSaved(s, nargs), <<>>, nargs, nresults, pos, stack))
            /\ stack' = PcallArgs(s, nargs)
    /\ obs' = obs
    /\ out' = NoOut
    /\ UNCHANGED <<heap, errMT, ntab, sig>>
    /\ UNCHANGED co

\* VM code calls a host callback, which runs its closure under callback_error.
\* Inside error_guard it is an ffi function that calls it (a metamethod).
CallCallback ==
    /\ Quiet
    /\ cs # <<>> /\ Top.kind \in {"PT", "SP", "SX", "EG"}
    /\ Len(cs) < MaxNest
    /\ cs' = Append(cs, Frame("CB", <<>>, stack, 0, 0, 0, stack))
    /\ stack' = <<>>
    /\ obs' = obs
    /\ out' = NoOut
    /\ UNCHANGED <<heap, errMT, ntab, sig>>
    /\ UNCHANGED co

\* What callback_error did (k) with what its closure did (closure), and the heap
\* size and stack depth it started from.
CallbackOut(k, closure, err, payload) ==
    [fn |-> "callback_error", k |-> k, closure |-> closure, err |-> err,
     payload |-> payload, nheap |-> Len(heap), before |-> Len(stack)]

\* The closure returns Ok.  In error_guard call_impl returns every value of its
\* frame, lua_pcall succeeds and handle_error(LUA_OK) gives Ok; a callback
\* returns to the VM code that called it.
HostOk ==
    /\ Quiet
    /\ cs # <<>> /\ Top.kind \in {"EG", "CB"}
    /\ IF Top.kind = "EG"
       THEN \E r \in {handle_error(pcall_returned(CurL, Top.saved, Top.nresults, Top.msgh), LUA_OK)} :
                /\ SetL(r.L)
                /\ out' = [fn |-> "error_guard", k |-> r.k, err |-> r.err, closure |-> "ok",
                           nargs |-> Top.nargs, nresults |-> Top.nresults, before |-> Top.before]
       ELSE /\ stack' = Top.outer
            /\ out' = CallbackOut("ok", "ok", NoError, NoPayload)
            /\ UNCHANGED <<heap, errMT, ntab>>
    /\ cs' = SubSeq(cs, 1, Len(cs) - 1)
    /\ UNCHANGED <<sig, obs>>
    /\ UNCHANGED co

\* The errors a closure may return: its own, or the one the call it just made
\* returned to it (propagated with ?).
ClosureErrs == Errs \cup (IF out.k = "err" THEN {out.err} ELSE {})

\* The closure returns Err(e): callback_error pushes the carrier and raises.
HostErr ==
    /\ Quiet
    /\ cs # <<>> /\ Top.kind \in {"EG", "CB"}
    /\ \E e \in ClosureErrs :
        /\ e \in Errs => ~obs.raised
        /\ SetL(push_wrapped_error(CurL, e))
        /\ obs' = [obs EXCEPT !.raised = TRUE]
        /\ out' = CallbackOut("raise", "err", e, NoPayload)
    /\ sig' = [k |-> "lerr", payload |-> NoPayload]
    /\ UNCHANGED <<cs>>
    /\ UNCHANGED co

\* The closure panics: callback_error catches the unwind, pushes the payload in
\* a carrier and raises.
HostPanic ==
    /\ Quiet
    /\ cs # <<>> /\ Top.kind \in {"EG", "CB"}
    /\ ~obs.raised
    /\ \E p \in Payloads :
        /\ SetL(push_wrapped_panic(CurL, p))
        /\ obs' = [obs EXCEPT !.raised = TRUE, !.panic = p]
        /\ out' = CallbackOut("raise", "panic", NoError, p)
    /\ sig' = [k |-> "lerr", payload |-> NoPayload]
    /\ UNCHANGED <<cs>>
    /\ UNCHANGED co

\* The VM raises an error of its own, a string, in VM code or in an ffi
\* function the closure of an error_guard calls.
VmError ==
    /\ Quiet
    /\ cs # <<>> /\ Top.kind \in {"PT", "SP", "SX", "EG"}
    /\ ~obs.raised
    /\ \E m \in {<<"x">>, <<"x", "NUL", "y">>, <<"x", "BAD">>} : stack' = Append(stack, Str(m))
    /\ obs' = [obs EXCEPT !.raised = TRUE]
    /\ sig' = [k |-> "lerr", payload |-> NoPayload]
    /\ out' = NoOut
    /\ UNCHANGED <<heap, errMT, ntab, cs>>
    /\ UNCHANGED co

\* A raised error leaves a callback's frame: the VM unwinds to the protected
\* call around it.
RaiseLeavesCallback ==
    /\ Alive /\ sig.k = "lerr"
    /\ cs # <<>> /\ Top.kind = "CB"
    /\ cs' = SubSeq(cs, 1, Len(cs) - 1)
    /\ UNCHANGED <<stack, heap, errMT, ntab, out, sig, obs>>
    /\ UNCHANGED co

\* What was raised in a protected call, by the error value: a host panic, a
\* structured error of a closure, or an error of the VM's own.
RaisedKind(hp, v) ==
    IF IsPanicCarrier(hp, v) THEN "panic"
    ELSE IF v.t = "ud" /\ hp[v.id].variant = "Error" THEN "err"
    ELSE "vm"

\* A raised error reaches the lua_pcall of pcall_with_traceback, in error_guard
\* or around a VM function: the message handler has run, handle_error gets
\* LUA_ERRRUN and returns Err or resumes the panic.
TracebackCatches ==
    /\ Alive /\ sig.k = "lerr"
    /\ cs # <<>> /\ Top.kind \in {"EG", "PT"}
    /\ \E r \in {handle_error(pcall_failed(CurL, Top.saved, Top.msgh), LUA_ERRRUN)} :
           /\ SetL(r.L)
           /\ out' = [fn |-> IF Top.kind = "EG" THEN "error_guard" ELSE "pcall_with_traceback",
                      k |-> r.k, err |-> r.err, closure |-> RaisedKind(heap, stack[Len(stack)]),
                      nargs |-> Top.nargs, nresults |-> Top.nresults, before |-> Top.before]
           /\ sig' = IF r.k = "unwind" THEN [k |-> "unwind", payload |-> r.payload] ELSE NoSig
           /\ obs' = [obs EXCEPT !.swallowed = @ \/ (obs.panic # NoPayload /\ r.k # "unwind")]
    /\ cs' = SubSeq(cs, 1, Len(cs) - 1)
    /\ UNCHANGED co

\* The VM function called by pcall_with_traceback returns its values.
LuaReturnsToHost ==
    /\ Quiet
    /\ cs # <<>> /\ Top.kind = "PT"
    /\ \E r \in {handle_error(pcall_returned(CurL, Top.saved, Top.nresults, Top.msgh), LUA_OK)} :
           /\ SetL(r.L)
           /\ out' = [fn |-> "pcall_with_traceback", k |-> r.k, err |-> r.err, closure |-> "ok",
                      nargs |-> Top.nargs, nresults |-> Top.nresults, before |-> Top.before]
    /\ cs' = SubSeq(cs, 1, Len(cs) - 1)
    /\ UNCHANGED <<sig, obs>>
    /\ UNCHANGED co

\* A resumed panic unwinds the host code of a closure and is caught by the
\* catch_unwind of the callback_error around it, which wraps and raises it.
UnwindCaught ==
    /\ Alive /\ sig.k = "unwind"
    /\ cs # <<>> /\ Top.kind \in {"EG", "CB"}
    /\ SetL(push_wrapped_panic(CurL, sig.payload))
    /\ sig' = [k |-> "lerr", payload |-> NoPayload]
    /\ out' = CallbackOut("raise", "panic", NoError, sig.payload)
    /\ UNCHANGED <<cs, obs>>
    /\ UNCHANGED co

\* VM code calls safe_pcall(f, ...): its lua_pcall enters f.
CallSafePcall ==
    /\ Quiet /\ LuaRuns
    /\ Len(cs) < MaxNest
    /\ \E nargs \in {0} :
        LET F == <<Fn("lua")>> \o [i \in 1..nargs |-> Nil]
            n == lua_gettop(F) - 1
        IN  /\ PcallFn(F, n) = Fn("lua")
            /\ cs' = Append(cs, Frame("SP", PcallSaved(F, n), stack, nargs, LUA_MULTRET, 0, F))
            /\ stack' = PcallArgs(F, n)
    /\ obs' = obs
    /\ out' = NoOut
    /\ UNCHANGED <<heap, errMT, ntab, sig>>
    /\ UNCHANGED co

\* VM code calls safe_xpcall(f, handler, ...): its lua_pcall enters the value
\* below its lua_gettop(state) - 2 arguments.
CallSafeXpcall ==
    /\ Quiet /\ LuaRuns
    /\ Len(cs) < MaxNest
    /\ \E nargs \in {0} :
        LET F == safe_xpcall_setup(<<Fn("lua"), Fn("handler")>> \o [i \in 1..nargs |-> Nil])
            n == lua_gettop(F) - 2
        IN  /\ PcallFn(F, n) = Fn("lua")
            /\ cs' = Append(cs, Frame("SX", PcallSaved(F, n), stack, nargs, LUA_MULTRET, 1, F))
            /\ stack' = PcallArgs(F, n)
    /\ obs' = obs
    /\ out' = NoOut
    /\ UNCHANGED <<heap, errMT, ntab, sig>>
    /\ UNCHANGED co

\* The values on the stacks of the callers of the frames of cs from i on.
RECURSIVE CallersHold(_)
CallersHold(i) ==
    IF i > Len(cs) THEN 0
    ELSE (IF cs[i].kind \in {"EG", "PT"} THEN Len(cs[i].before) ELSE Len(cs[i].outer))
             + CallersHold(i + 1)

\* The VM function a shim called computes a value, which it may return; the
\* stacks of the chain have room for it.
LuaPush ==
    /\ Quiet
    /\ cs # <<>> /\ Top.kind \in {"SP", "SX"}
    /\ Len(stack) < MaxReturn
    /\ CallersHold(1) + Len(stack) < MaxStack
    /\ stack' = Append(stack, Num(<<"4", "2">>))
    /\ out' = NoOut
    /\ UNCHANGED <<heap, errMT, ntab, cs, sig, obs, co>>

\* What a shim did with the outcome of its lua_pcall.
ShimOut(fn, d, status, F, hp) ==
    [fn |-> fn, k |-> d.k, err |-> NoError, status |-> status,
     caught |-> IF status = LUA_OK THEN Nil ELSE F[Len(F)],
     caughtPanic |-> status # LUA_OK /\ IsPanicCarrier(hp, F[Len(F)]),
     nret |-> d.n, frame |-> F]

\* The VM function called by a shim returns its values: lua_pcall gives LUA_OK
\* and the shim returns to the VM code that called it.
LuaReturnsToShim ==
    /\ Quiet
    /\ cs # <<>> /\ Top.kind \in {"SP", "SX"}
    /\ LET F == Top.saved \o AdjustResults(stack, Top.nresults)
           d == IF Top.kind = "SP" THEN safe_pcall([CurL EXCEPT !.stack = F], LUA_OK)
                ELSE safe_xpcall([CurL EXCEPT !.stack = F], LUA_OK)
       IN  /\ stack' = Top.outer \o ReturnedValues(F, d.n)
           /\ out' = ShimOut(IF Top.kind = "SP" THEN "safe_pcall" ELSE "safe_xpcall",
                             d, LUA_OK, F, heap)
    /\ cs' = SubSeq(cs, 1, Len(cs) - 1)
    /\ UNCHANGED <<heap, errMT, ntab, sig, obs>>
    /\ UNCHANGED co

\* A raised error reaches the lua_pcall of safe_pcall, which has no message
\* handler: the shim raises it again or returns it to the VM code.
SafePcallCatches ==
    /\ Alive /\ sig.k = "lerr"
    /\ cs # <<>> /\ Top.kind = "SP"
    /\ LET F == Append(Top.saved, stack[Len(stack)])
           d == safe_pcall([CurL EXCEPT !.stack = F], LUA_ERRRUN)
       IN  /\ stack' = IF d.k = "raise" THEN F ELSE Top.outer \o ReturnedValues(F, d.n)
           /\ sig' = IF d.k = "raise" THEN sig ELSE NoSig
           /\ out' = ShimOut("safe_pcall", d, LUA_ERRRUN, F, heap)
           /\ obs' = [obs EXCEPT !.swallowed = @ \/ (obs.panic # NoPayload /\ d.k # "raise"),
                                 !.viaShim = @ \/ d.k = "raise"]
    /\ cs' = SubSeq(cs, 1, Len(cs) - 1)
    /\ UNCHANGED <<heap, errMT, ntab>>
    /\ UNCHANGED co

\* A raised error reaches the lua_pcall of safe_xpcall: the handler wrapper has
\* run on it, then the shim raises the result again or returns to the VM code.
SafeXpcallCatches ==
    /\ Alive /\ sig.k = "lerr"
    /\ cs # <<>> /\ Top.kind = "SX"
    /\ \E hres \in {<<>>, <<Str(<<"handled">>)>>, <<stack[Len(stack)]>>} :
        LET h == xpcall_msgh([CurL EXCEPT !.stack = <<stack[Len(stack)]>>], hres)
            F == Append(Top.saved, h.v)
            d == safe_xpcall([CurL EXCEPT !.stack = F], LUA_ERRRUN)
        IN  /\ stack' = IF d.k = "raise" THEN F ELSE Top.outer \o ReturnedValues(F, d.n)
            /\ sig' = IF d.k = "raise" THEN sig ELSE NoSig
            /\ out' = ShimOut("safe_xpcall", d, LUA_ERRRUN, F, heap)
            /\ obs' = [obs EXCEPT
                          !.swallowed = @ \/ (obs.panic # NoPayload /\ d.k # "raise"),
                          !.viaShim = @ \/ d.k = "raise",
                          !.handlerSaw = @ \/ (h.called /\ IsPanicCarrier(heap, stack[Len(stack)]))]
    /\ cs' = SubSeq(cs, 1, Len(cs) - 1)
    /\ UNCHANGED <<heap, errMT, ntab>>
    /\ UNCHANGED co

\* In SpecNest the protected closures take no arguments and declare no results.
CallErrorGuard == ErrorGuardCall(MaxNest, {0}, {0})

NextNest ==
    \/ CallErrorGuard
    \/ CallLuaFunction
    \/ CallCallback
    \/ HostOk
    \/ HostErr
    \/ HostPanic
    \/ VmError
    \/ RaiseLeavesCallback
    \/ TracebackCatches
    \/ LuaReturnsToHost
    \/ UnwindCaught
    \/ CallSafePcall
    \/ CallSafeXpcall
    \/ LuaReturnsToShim
    \/ SafePcallCatches
    \/ SafeXpcallCatches

SpecNest == InitBase /\ [][NextNest]_vars

-----------------------------------------------------------------------------
(* SpecShim: VM code, entered from the host by pcall_with_traceback, that     *)
(* calls functions through safe_pcall and safe_xpcall; the functions compute  *)
(* values and return them, or raise errors of the VM's own.                   *)

NextShim ==
    \/ CallLuaFunction
    \/ CallSafePcall
    \/ CallSafeXpcall
    \/ LuaPush
    \/ VmError
    \/ LuaReturnsToShim
    \/ SafePcallCatches
    \/ SafeXpcallCatches
    \/ LuaReturnsToHost
    \/ TracebackCatches

SpecShim == InitBase /\ [][NextShim]_vars

-----------------------------------------------------------------------------
(* SpecThread: two threads of one VM, the main thread (stack) and a coroutine *)
(* (co), which share the heap and the registry.  The host resumes the         *)
(* coroutine from the main thread with resume_with_traceback, and asks either *)
(* thread for the main thread with main_state.                                *)

\* The main thread as a value: registry[LUA_RIDX_MAINTHREAD].
MainThread == [t |-> "thread", id |-> 0, s |-> <<"main">>]

\* The VM state seen through the thread whose stack is stk.
OnThread(L, stk) == [L EXCEPT !.stack = stk]

\* What resume_with_traceback leaves: the stack of the resumed thread (state)
\* and L, the VM state seen through the resuming thread (from).
Resumed(stateStk, L, k, payload) ==
    [state |-> stateStk, L |-> L, k |-> k, payload |-> payload]

\* resume_with_traceback on a structured error, popped off the resumed thread:
\* the traceback is pushed on the resuming thread, read from its top, and the
\* error goes onto the resuming thread wrapped in a CallbackError.  A
\* pop_wrapped_error that panicked unwinds through resume_with_traceback.
resume_traced_error(popped, fromStk) ==
    IF popped.k = "unwind"
    THEN Resumed(popped.L.stack, OnThread(popped.L, fromStk), "unwind", popped.payload)
    ELSE LET F1 == OnThread(popped.L, Append(fromStk, Str(luaL_traceback(<<>>))))
             traceback == CStrFromPtr(F1.stack[Len(F1.stack)].s)
         IN  Resumed(popped.L.stack,
                     push_wrapped_error(F1, CallbackError(traceback, popped.err)),
                     "ok", NoPayload)

\* resume_with_traceback(state, from, nargs) after its lua_resume returned res:
\* S is the VM state seen through the resumed thread, fromStk the stack of the
\* resuming thread.
resume_with_traceback(S, fromStk, res) ==
    IF res = LUA_OK \/ res = LUA_YIELD
    THEN Resumed(S.stack, OnThread(S, fromStk), "ok", NoPayload)
    ELSE IF is_wrapped_error(S, 1).res
    THEN IF ~is_panic_error(S, 1).res
         THEN resume_traced_error(pop_wrapped_error(S), fromStk)
         ELSE Resumed(S.stack, OnThread(S, fromStk), "ok", NoPayload)
    ELSE IF HasText(S.stack[1])
         THEN Resumed(S.stack,
                      OnThread(S, Append(fromStk, Str(luaL_traceback(CStrFromPtr(S.stack[1].s))))),
                      "ok", NoPayload)
         ELSE Resumed(S.stack,
                      OnThread(S, Append(fromStk, Str(luaL_traceback(UnprintableLua)))),
                      "ok", NoPayload)

\* lua_pop(state, 1) on an empty stack is undefined: a build with the API
\* checks aborts, one without leaves the thread with a corrupt top.
PopOutcomes(stk) ==
    IF Len(stk) > 0 THEN {[stack |-> lua_pop(stk, 1), k |-> "ok"]}
    ELSE {[stack |-> stk, k |-> "abort"], [stack |-> stk, k |-> "corrupt"]}

\* main_state(state): lua_rawgeti pushes the main thread on the stack of the
\* calling thread (callerStk), lua_tothread rebinds `state` to the main thread,
\* and lua_pop(state, 1) pops the stack of the thread `state` names by then:
\* the main thread's (mainStk).  isMain says the calling thread is the main
\* thread, whose stack is then callerStk.
main_state(callerStk, mainStk, isMain) ==
    LET pushed == Append(callerStk, MainThread)
    IN  IF isMain
        THEN {[caller |-> p.stack, main |-> p.stack, k |-> p.k, ret |-> MainThread] :
                 p \in PopOutcomes(pushed)}
        ELSE {[caller |-> pushed, main |-> p.stack, k |-> p.k, ret |-> MainThread] :
                 p \in PopOutcomes(mainStk)}

\* The host pushes a value on one of the threads.
ThreadPush ==
    /\ Alive
    /\ \E onMain \in BOOLEAN :
        IF onMain
        THEN /\ Len(stack) < MaxStack
             /\ stack' = Append(stack, Num(<<"4", "2">>))
             /\ co' = co
        ELSE /\ Len(co) < MaxStack
             /\ co' = Append(co, Num(<<"4", "2">>))
             /\ stack' = stack
    /\ out' = NoOut
    /\ UNCHANGED <<heap, errMT, ntab, cs, sig, obs>>

\* The error objects a failed lua_resume leaves on top of the resumed thread:
\* what the VM raised, or the carrier a callback of the coroutine raised.
ResumeErrors ==
    {[kind |-> "vm", v |-> Str(<<"x">>)], [kind |-> "vm", v |-> Nil]}
        \cup {[kind |-> "err", v |-> e] : e \in Errs}
        \cup {[kind |-> "panic", v |-> p] : p \in Payloads}

\* The VM state, seen through the resumed thread, after a lua_resume that
\* failed with the error object eo: the error object is on top of what the
\* thread held, the stack not unwound.
lua_resume_failed(S, eo) ==
    IF eo.kind = "vm" THEN [S EXCEPT !.stack = Append(@, eo.v)]
    ELSE IF eo.kind = "err" THEN push_wrapped_error(S, eo.v)
    ELSE push_wrapped_panic(S, eo.v)

\* The main thread resumes the coroutine with resume_with_traceback.
ResumeWithTraceback ==
    /\ Alive
    /\ Len(stack) < MaxStack
    /\ Len(co) < MaxStack
    /\ \E res \in {LUA_OK, LUA_YIELD, LUA_ERRRUN} :
        \E eo \in IF res = LUA_ERRRUN THEN ResumeErrors ELSE {[kind |-> "none", v |-> Nil]} :
            /\ eo.kind \in {"err", "panic"} => Len(heap) < MaxCarriers
            /\ \E S \in {IF res = LUA_ERRRUN THEN lua_resume_failed(OnThread(CurL, co), eo)
                          ELSE OnThread(CurL, co)} :
                \E r \in {resume_with_traceback(S, stack, res)} :
                    /\ SetL(r.L)
                    /\ co' = r.state
                    /\ out' = [fn |-> "resume_with_traceback", k |-> r.k, res |-> res,
                               eo |-> eo, resumed |-> S.stack, from |-> stack,
                               nheap |-> Len(S.heap)]
    /\ UNCHANGED <<cs, sig, obs>>

\* The host asks for the main thread, from the main thread or from the
\* coroutine.
MainState ==
    /\ Alive
    /\ \E isMain \in BOOLEAN :
        /\ Len(IF isMain THEN stack ELSE co) < MaxStack
        /\ \E r \in main_state(IF isMain THEN stack ELSE co, stack, isMain) :
            /\ stack' = r.main
            /\ co' = IF isMain THEN co ELSE r.caller
            /\ out' = [fn |-> "main_state", k |-> r.k, ret |-> r.ret, isMain |-> isMain,
                       main |-> stack, co |-> co]
    /\ UNCHANGED <<heap, errMT, ntab, cs, sig, obs>>

NextThread == ThreadPush \/ ResumeWithTraceback \/ MainState

SpecThread == InitBase /\ [][NextThread]_vars

-----------------------------------------------------------------------------
(* SpecCall: one error_guard called by the outermost host code, with          *)
(* arguments on the stack and results declared; the host code pushes values,  *)
(* before the call and from inside the closure.  Nesting is SpecNest's.       *)

CallErrorGuardArgs == cs = <<>> /\ ErrorGuardCall(MaxNest, 0..MaxArgs, 0..MaxResults)

NextCall ==
    \/ HostPush
    \/ CallErrorGuardArgs
    \/ HostOk
    \/ HostErr
    \/ HostPanic
    \/ VmError
    \/ TracebackCatches

SpecCall == InitBase /\ [][NextCall]_vars

-----------------------------------------------------------------------------
(* Claims about stack_guard, under SpecGuard *)

GuardExpected == out.before + out.change

\* C1: when the guarded operation returns Ok, stack_guard returns that Ok only
\* with the stack depth at exactly (depth before) + change; any other depth is
\* an assertion failure.  It never returns Ok with another depth.
C1_GuardOkExactDepth ==
    out.fn = "stack_guard" =>
        /\ out.k = "ok" => (Len(stack) = GuardExpected /\ out.opRes.k = "ok")
        /\ (out.opRes.k = "ok" /\ GuardExpected >= 0) =>
              IF out.opTop = GuardExpected THEN out.k = "ok" ELSE out.k = "unwind"

\* A guarded operation that pops values, as declared, and succeeds.
C1_Witness ==
    /\ out.fn = "stack_guard"
    /\ out.k = "ok"
    /\ out.change < 0
    /\ Len(stack) = GuardExpected

-----------------------------------------------------------------------------
(* Claims about the carriers, under SpecErr *)

\* C5: a structured error pushed by push_wrapped_error and then classified by
\* handle_error, with any failure code, or popped by pop_wrapped_error comes
\* back equal in kind and message, and the stack is as deep as before the push.
C5_RoundTrip ==
    ( /\ out.fn \in {"handle_error", "pop_wrapped_error"}
      /\ out.prev.fn = "push_wrapped_error"
      /\ out.code \in FailCodes ) =>
        /\ out.k = "err"
        /\ out.err = out.prev.err
        /\ Len(stack) = out.prev.before

\* The round trip through handle_error with the out-of-memory code, above
\* another value.
C5_Witness ==
    /\ out.fn = "handle_error"
    /\ out.prev.fn = "push_wrapped_error"
    /\ out.code = LUA_ERRMEM
    /\ out.k = "err"
    /\ out.err \in Errs
    /\ Len(stack) > 0

\* C6: the payload of a panic carrier is resumed by the first consumption only
\* and the slot is empty afterwards; every later consumption resumes the
\* placeholder, never the original payload.
C6_PayloadAtMostOnce ==
    \A id \in 1..Len(heap) :
        heap[id].variant = "Panic" =>
            LET u == obs.used[id]
            IN  IF u = <<>> THEN heap[id].payload = obs.orig[id]
                ELSE /\ u[1] = obs.orig[id]
                     /\ heap[id].payload = NoPayload
                     /\ \A j \in 2..Len(u) : u[j] = UsedTwice /\ u[j] # obs.orig[id]

\* A panic carrier that was consumed twice.
C6_Witness ==
    \E id \in 1..Len(heap) :
        /\ heap[id].variant = "Panic"
        /\ Len(obs.used[id]) >= 2

-----------------------------------------------------------------------------
(* Claims about handle_error on raw VM errors, under SpecClassify *)

\* The text of a VM value, as the VM holds it.
TextOf(v) == IF HasText(v) THEN v.s ELSE Unprintable

\* C9: on a value that is no carrier, the runtime fault gives RuntimeError, the
\* handler fault ErrorError, the syntax fault IncompleteStatement exactly when
\* the message ends with <eof> and Syntax otherwise, each carrying the text of
\* the value on top of the stack unchanged.
C9_RawClassification ==
    ( /\ out.fn = "handle_error"
      /\ ~out.topWrapped
      /\ out.code \in {LUA_ERRRUN, LUA_ERRERR, LUA_ERRSYNTAX} ) =>
        /\ out.k = "err"
        /\ out.err.msg = TextOf(out.top)
        /\ out.err.kind =
              IF out.code = LUA_ERRRUN THEN "RuntimeError"
              ELSE IF out.code = LUA_ERRERR THEN "ErrorError"
              ELSE IF ends_with(TextOf(out.top), Eof) THEN "IncompleteStatement"
              ELSE "Syntax"

\* C10, as claimed: with the out-of-memory or the finalizer fault code the
\* process aborts, whatever is on top of the stack.
C10_FatalWhateverOnTop ==
    (out.fn = "handle_error" /\ out.code \in {LUA_ERRMEM, LUA_ERRGCMM}) => out.k = "abort"

\* C10, amended: with the out-of-memory or the finalizer fault code and a value
\* on top that is no carrier, handle_error returns nothing: the process
\* aborts, unless reading a text that is not UTF-8 panicked first.  A carrier
\* on top is handled before the code is looked at: a structured error is
\* returned as Err and a panic is resumed.
C10_FatalUnlessCarrier ==
    (out.fn = "handle_error" /\ out.code \in {LUA_ERRMEM, LUA_ERRGCMM}) =>
        IF out.topWrapped
        THEN IF out.topPanic THEN out.k = "unwind" ELSE out.k = "err"
        ELSE IF HasText(out.top) /\ ~Utf8Valid(CStrFromPtr(out.top.s))
        THEN out.k = "unwind"
        ELSE out.k = "abort"

\* The finalizer fault with a VM message on top of another value.
C10_Witness ==
    /\ out.fn = "handle_error"
    /\ out.code = LUA_ERRGCMM
    /\ out.top.t = "str"
    /\ out.k = "abort"
    /\ out.before = 2

-----------------------------------------------------------------------------
(* Claims about nested calls, under SpecNest *)

\* The panic of obs.panic is in flight: as a host unwind with that payload, or
\* as a raised VM error whose value is a panic carrier holding it.
PanicInFlight ==
    \/ sig.k = "unwind" /\ sig.payload = obs.panic
    \/ /\ sig.k = "lerr"
       /\ Len(stack) > 0
       /\ IsPanicCarrier(heap, stack[Len(stack)])
       /\ heap[stack[Len(stack)].id].payload = obs.panic

\* The panic has been resumed as a host unwind at the outermost host caller.
PanicAtOutermost ==
    /\ cs = <<>>
    /\ sig.k = "unwind"
    /\ sig.payload = obs.panic

\* While a panic propagates no error_guard returns it as Err, no shim returns
\* to the VM code that called it and no user message handler is called with it.
PanicNeverIntercepted ==
    obs.panic # NoPayload =>
        /\ PanicInFlight
        /\ ~obs.swallowed
        /\ ~obs.handlerSaw
        /\ out.fn \in {"error_guard", "pcall_with_traceback"} => out.k = "unwind"
        /\ out.fn \in {"safe_pcall", "safe_xpcall"} => out.k = "raise"
        /\ cs = <<>> => PanicAtOutermost

\* A propagating panic can always take its next step: an unwind is in a host
\* frame (an error_guard closure or a callback), which catches it, and a raised
\* carrier is caught by whatever frame is on top.
PanicCanProceed ==
    (obs.panic # NoPayload /\ cs # <<>>) =>
        \/ sig.k = "unwind" /\ Top.kind \in {"EG", "CB"}
        \/ sig.k = "lerr" /\ Top.kind \in {"EG", "PT", "CB", "SP", "SX"}

\* What a propagating panic has left to cross: the frames of the nesting, and
\* in a host frame the conversion of the unwind to a raised carrier.
PanicDistance == 2 * Len(cs) + (IF sig.k = "unwind" THEN 1 ELSE 0)

\* C3: once a host closure has panicked, the panic stays in flight through every
\* enclosing error_guard, callback, safe_pcall and safe_xpcall and is never
\* intercepted on the way; every step taken while it propagates brings it
\* nearer to the outermost host caller and a next step is possible until that
\* caller is reached, where the panic is a host unwind with the same payload.
C3_PanicReachesOutermost ==
    /\ [](PanicNeverIntercepted /\ PanicCanProceed)
    /\ [][obs.panic # NoPayload =>
             /\ PanicDistance' < PanicDistance
             /\ obs'.panic = obs.panic]_vars

\* A panic that reached the outermost caller through a shim and at least two
\* carriers.
C3_Witness ==
    /\ obs.panic # NoPayload
    /\ cs = <<>>
    /\ sig.k = "unwind"
    /\ sig.payload = obs.panic
    /\ obs.viaShim
    /\ Len(heap) >= 2

\* C4: a shim whose lua_pcall caught a panic carrier does not return to the VM:
\* it raises that same carrier again.  It returns only on success or when the
\* error caught is no panic carrier.
C4_ShimsReraisePanic ==
    out.fn \in {"safe_pcall", "safe_xpcall"} =>
        /\ out.caughtPanic =>
              /\ out.k = "raise"
              /\ sig.k = "lerr"
              /\ stack[Len(stack)] = out.caught
        /\ out.k = "ok" => (out.status = LUA_OK \/ ~out.caughtPanic)

\* safe_xpcall raising again the panic carrier it caught.
C4_Witness ==
    /\ out.fn = "safe_xpcall"
    /\ out.caughtPanic
    /\ out.k = "raise"
    /\ sig.k = "lerr"

\* C7: a structured error returned to the outermost caller through any number
\* of nested error_guard and pcall_with_traceback calls carries exactly one
\* CallbackError layer.
C7_SingleTraceLayer ==
    ( /\ cs = <<>>
      /\ out.fn \in {"error_guard", "pcall_with_traceback"}
      /\ out.k = "err"
      /\ \E e \in Errs : out.err.kind = e.kind ) =>
        Len(out.err.traces) = 1

-----------------------------------------------------------------------------
(* Claims about error_guard's stack effect, under SpecCall *)

\* C8: when the closure returns Ok, error_guard returns Ok and the stack is the
\* stack before without the nargs arguments, followed by nresults values, none
\* of them the entry point, the closure pointer or the message handler.
C8_ErrorGuardOkDepth ==
    (out.fn = "error_guard" /\ out.closure = "ok") =>
        LET base == Len(out.before) - out.nargs
        IN  /\ out.k = "ok"
            /\ Len(stack) = base + out.nresults
            /\ SubSeq(stack, 1, base) = SubSeq(out.before, 1, base)
            /\ \A i \in (base + 1)..Len(stack) : stack[i].t \notin {"fn", "lud"}

\* No arguments and 2 declared results: the stack is 2 deeper.
C8_Witness ==
    /\ out.fn = "error_guard"
    /\ out.closure = "ok"
    /\ out.k = "ok"
    /\ out.nargs = 0
    /\ out.nresults = 2
    /\ Len(stack) = Len(out.before) + 2
    /\ stack[Len(stack)] # Nil

-----------------------------------------------------------------------------
(* Claims about the carrier's metatable, under SpecErr *)

\* The userdata id holds a WrappedError.
IsCarrier(id) == heap[id].variant \in {"Error", "Panic"}

\* C11: the metatable of the carriers is created and stored in the registry at
\* most once: once the registry holds it, no push creates a table or replaces
\* the entry.  Every carrier has the registry's table as its metatable, and
\* is_wrapped_error is true of a stack value exactly when it is a userdata
\* whose metatable is that table, that is, a carrier.
C11_SingleDescriptor ==
    /\ [](/\ \A id \in 1..Len(heap) :
                 IsCarrier(id) => (errMT # 0 /\ heap[id].mt = errMT)
          /\ \A i \in 1..Len(stack) :
                 is_wrapped_error(CurL, i).res =
                     (stack[i].t = "ud" /\ heap[stack[i].id].mt # 0
                                        /\ heap[stack[i].id].mt = errMT)
          /\ \A i \in 1..Len(stack) :
                 is_wrapped_error(CurL, i).res = (stack[i].t = "ud" /\ IsCarrier(stack[i].id)))
    /\ [][errMT # 0 =>
             /\ errMT' = errMT
             /\ out'.fn \in {"push_wrapped_error", "push_wrapped_panic"} => ntab' = ntab]_vars

\* Two carriers pushed one after the other share the registry's metatable, next
\* to nothing else on the heap.
C11_Witness ==
    /\ Len(heap) = 2
    /\ IsCarrier(1) /\ IsCarrier(2)
    /\ heap[1].mt = errMT /\ heap[2].mt = errMT
    /\ errMT # 0
    /\ Len(stack) = 2
    /\ is_wrapped_error(CurL, 1).res /\ is_wrapped_error(CurL, 2).res

-----------------------------------------------------------------------------
(* Claims about stack_guard's failure arm, under SpecGuard *)

\* C12: when the operation results in an error and stack_guard returns it, the
\* stack has the depth it had before the call, whatever the declared change.
C12_ErrShrinksToBefore ==
    (out.fn = "stack_guard" /\ out.opRes.k = "err" /\ out.k = "err") =>
        Len(stack) = out.before

-----------------------------------------------------------------------------
(* Claims about callback_error, under SpecNest *)

\* callback_error pushed exactly one carrier of the given variant, holding err
\* and payload, and raised the VM error.
RaisedOneCarrier(variant, err, payload) ==
    /\ out.k = "raise"
    /\ sig.k = "lerr"
    /\ Len(heap) = out.nheap + 1
    /\ Len(stack) = out.before + 1
    /\ stack[Len(stack)] = Ud(Len(heap))
    /\ is_wrapped_error(CurL, -1).res
    /\ heap[Len(heap)].variant = variant
    /\ heap[Len(heap)].err = err
    /\ heap[Len(heap)].payload = payload

\* C13: callback_error returns normally, pushing nothing, exactly when the
\* closure returned Ok; on Err(e) it pushes one Error carrier holding e and
\* raises the VM error; on a panic with payload p it pushes one Panic carrier
\* holding p and raises the VM error.  It never ends in a host unwind.
C13_CallbackThreeOutcomes ==
    out.fn = "callback_error" =>
        /\ (out.k = "ok") = (out.closure = "ok")
        /\ out.closure = "ok" => (sig.k = "none" /\ Len(heap) = out.nheap)
        /\ out.closure = "err" => RaisedOneCarrier("Error", out.err, NoPayload)
        /\ out.closure = "panic" => RaisedOneCarrier("Panic", NoError, out.payload)
        /\ sig.k # "unwind"

\* The closure of a callback has panicked and the payload sits in a Panic
\* carrier on top of the stack, the VM error raised.
C13_Witness ==
    /\ out.fn = "callback_error"
    /\ out.closure = "panic"
    /\ out.payload \in Payloads
    /\ cs # <<>> /\ cs[Len(cs)].kind = "CB"
    /\ sig.k = "lerr"
    /\ heap[stack[Len(stack)].id].payload = out.payload

-----------------------------------------------------------------------------
(* Claims about the message handlers, under SpecNest *)

\* The frame a message handler runs in: the error value alone.
HandlerFrame == [CurL EXCEPT !.stack = <<stack[Len(stack)]>>]

\* A panic carrier has been raised and is the error value in flight.
PanicRaised ==
    /\ sig.k = "lerr"
    /\ Len(stack) > 0
    /\ IsPanicCarrier(heap, stack[Len(stack)])

\* C14: on a panic carrier the message handler of pcall_with_traceback and the
\* handler wrapper of safe_xpcall give back the state they were given: the same
\* carrier, its payload in place, no traceback pushed, no carrier allocated,
\* and the wrapper without calling the user's handler.  So the step of
\* safe_xpcall catching it leaves the carrier on top and the heap as it was,
\* and the step of pcall_with_traceback catching it resumes the payload the
\* carrier held, with no carrier added.
C14_HandlersPassPanic ==
    /\ [](PanicRaised =>
            /\ message_handler(HandlerFrame) = HandlerFrame
            /\ \A hres \in {<<>>, <<Str(<<"handled">>)>>, <<stack[Len(stack)]>>} :
                   xpcall_msgh(HandlerFrame, hres) =
                       [called |-> FALSE, v |-> stack[Len(stack)]]
            /\ ~obs.handlerSaw)
    /\ [][(PanicRaised /\ cs # <<>>) =>
             /\ cs[Len(cs)].kind = "SX" =>
                   /\ stack'[Len(stack')] = stack[Len(stack)]
                   /\ heap' = heap
                   /\ ~obs'.handlerSaw
             /\ cs[Len(cs)].kind \in {"EG", "PT"} =>
                   /\ sig'.k = "unwind"
                   /\ sig'.payload = heap[stack[Len(stack)].id].payload
                   /\ Len(heap') = Len(heap)]_vars

\* safe_xpcall has caught a panic carrier that still holds its payload, and
\* the user's handler was not called on it.
C14_Witness ==
    /\ out.fn = "safe_xpcall"
    /\ out.caughtPanic
    /\ out.caught.t = "ud"
    /\ heap[out.caught.id].payload \in Payloads
    /\ stack[Len(stack)] = out.caught
    /\ ~obs.handlerSaw

-----------------------------------------------------------------------------
(* Claims about handle_error's stack effect, under SpecClassify *)

\* C16: a step of handle_error with LUA_OK or LUA_YIELD returns Ok and leaves
\* the stack as it is, and Ok is returned on these codes only; a step that
\* returns Err has popped the value on top and nothing else; a step on a
\* failure code with a panic carrier on top clears the stack and resumes the
\* panic instead of returning.
C16_HandleErrorStackEffect ==
    [][out'.fn = "handle_error" =>
          /\ out'.code \in {LUA_OK, LUA_YIELD} => (out'.k = "ok" /\ stack' = stack)
          /\ out'.k = "ok" => out'.code \in {LUA_OK, LUA_YIELD}
          /\ out'.k = "err" => stack' = SubSeq(stack, 1, Len(stack) - 1)
          /\ (out'.code \in FailCodes /\ out'.topPanic) =>
                (out'.k = "unwind" /\ stack' = <<>>)]_vars

\* handle_error returned Err for a raw error that had a value below it: one
\* value is left.
C16_Witness ==
    /\ out.fn = "handle_error"
    /\ out.k = "err"
    /\ ~out.topWrapped
    /\ out.before = 2
    /\ Len(stack) = 1

\* C17: when the closure returns a structured error, or the VM raises an error
\* inside the protected call, error_guard returns Err and the stack is the
\* stack before without the nargs arguments.
C17_ErrorGuardErrDepth ==
    (out.fn = "error_guard" /\ out.closure \in {"err", "vm"}) =>
        /\ out.k = "err"
        /\ stack = SubSeq(out.before, 1, Len(out.before) - out.nargs)

-----------------------------------------------------------------------------
(* Claims about the results of the shims, under SpecShim *)

\* C19: a shim that returns to the VM reports the values it holds for it: all
\* the values of its frame after lua_pcall, but for the handler wrapper that
\* safe_xpcall keeps in slot 1.  These are the callee's results on success and
\* the error value, or the handler's output, on failure.
C19_ShimResultCount ==
    (out.fn \in {"safe_pcall", "safe_xpcall"} /\ out.k = "ok") =>
        out.nret = Len(out.frame) - (IF out.fn = "safe_xpcall" THEN 1 ELSE 0)

-----------------------------------------------------------------------------
(* Claims about the two queries, under SpecQuery *)

\* C20: a step of is_wrapped_error or is_panic_error, of any slot, leaves the
\* stack, the heap with the payloads of its carriers, and the registry as they
\* are; and wherever is_panic_error is true, is_wrapped_error is true.
C20_QueriesArePure ==
    /\ [][out'.fn \in {"is_wrapped_error", "is_panic_error"} =>
             /\ stack' = stack
             /\ heap' = heap
             /\ errMT' = errMT
             /\ ntab' = ntab]_vars
    /\ [](\A index \in StackIndices :
             is_panic_error(CurL, index).res => is_wrapped_error(CurL, index).res)

\* is_panic_error has answered false for a userdata that has a metatable of its
\* own, below a panic carrier whose payload is in place.
C20_Witness ==
    /\ out.fn = "is_panic_error"
    /\ ~out.res
    /\ Len(stack) = 2
    /\ stack[lua_absindex(stack, out.index)].t = "ud"
    /\ heap[stack[lua_absindex(stack, out.index)].id].variant = "Other"
    /\ heap[stack[lua_absindex(stack, out.index)].id].mt # 0
    /\ is_panic_error(CurL, 2).res
    /\ heap[stack[2].id].payload \in Payloads

-----------------------------------------------------------------------------
(* Claims about the two threads, under SpecThread *)

\* C15: after resume_with_traceback, whatever lies below the error object on
\* the resumed thread: on OK or YIELD both stacks are as they were; on a failed
\* resume whose error object is a non-panic carrier, a carrier holding
\* CallbackError(trace, original error) is on top of the resuming thread; a
\* panic carrier is untouched, payload in place; a plain value gives, on top of
\* the resuming thread, a trace with the text of that value as prefix.
C15_ResumeHandlesErrorObject ==
    out.fn = "resume_with_traceback" =>
        IF out.res = LUA_OK \/ out.res = LUA_YIELD
        THEN co = out.resumed /\ stack = out.from
        ELSE /\ out.k = "ok"
             /\ out.eo.kind = "err" =>
                    /\ Len(stack) > 0
                    /\ stack[Len(stack)].t = "ud"
                    /\ heap[stack[Len(stack)].id].variant = "Error"
                    /\ heap[stack[Len(stack)].id].err =
                           CallbackError(CStrFromPtr(luaL_traceback(<<>>)), out.eo.v)
             /\ out.eo.kind = "panic" =>
                    /\ co = out.resumed
                    /\ stack = out.from
                    /\ heap[co[Len(co)].id].payload = out.eo.v
             /\ out.eo.kind = "vm" =>
                    /\ Len(stack) > 0
                    /\ stack[Len(stack)] =
                           Str(luaL_traceback(IF HasText(out.eo.v)
                                              THEN CStrFromPtr(out.eo.v.s)
                                              ELSE UnprintableLua))

\* C18: after main_state, called from either thread, the main thread is
\* returned and both the calling thread and the main thread have the depth
\* they had.
C18_MainStateKeepsDepths ==
    out.fn = "main_state" =>
        /\ out.k = "ok"
        /\ out.ret = MainThread
        /\ Len(stack) = Len(out.main)
        /\ Len(co) = Len(out.co)

====
